---- MODULE Spec2Model ----
(***************************************************************************)
(* Model of simuvex/s_variable.py: the SimVariable identity classes and    *)
(* the SimVariableSet container (register_variables,                       *)
(* register_variable_offsets, memory_variables,                            *)
(* memory_variable_addresses).                                             *)
(*                                                                         *)
(* Python values are tagged tuples, so that values of different Python     *)
(* types can be compared: None is <<"NoneType">>, a str s is <<"str", s>>, *)
(* an int n is <<"int", n>>, an AddressWrapper is                          *)
(* <<"AddressWrapper", region, address>>, a symbolic claripy bit-vector is *)
(* <<"BVS", name>> and a concrete one <<"BVV", n>>.                        *)
(* hash() is modelled as the canonical value of what is hashed (no         *)
(* accidental collisions), except where CPython fixes the value:           *)
(* hash(-1) == hash(-2) == -2.                                             *)
(***************************************************************************)
EXTENDS Integers, Sequences, FiniteSets, Bags, TLC

\* ------------------------------------------------------------------ bounds
\* memory variables of the runs start at addresses 1..MaxAddr
MaxAddr == 2
\* and have concrete sizes 1..MaxSize
MaxSize == 2
\* number of operations performed on the variable sets in one run
MaxOps == 3

\* ------------------------------------------------------- Python values
None == <<"NoneType">>
Str(s) == <<"str", s>>
PyInt(n) == <<"int", n>>
BVV(n) == <<"BVV", n>>
BVS(name) == <<"BVS", name>>
AddressWrapper(region, address) == <<"AddressWrapper", region, address>>

IsInt(v) == v[1] = "int"
IsAddressWrapper(v) == v[1] = "AddressWrapper"

\* '%s' % v
Fmt(v) ==
    CASE v[1] = "NoneType" -> "None"
      [] v[1] = "str" -> v[2]
      [] v[1] = "int" -> ToString(v[2])
      [] OTHER -> "<" \o v[1] \o ">"

\* hash(n) of a machine-size int: the int itself, but never -1
IntHash(n) == IF n = -1 THEN -2 ELSE n

\* hash(v) of a plain value (None, str, int, bit-vector)
ValueHash(v) == IF IsInt(v) THEN PyInt(IntHash(v[2])) ELSE v

\* hash(AddressWrapper): the wrapper is hashed by its region and address
AddressWrapperHash(a) == <<"hash(AddressWrapper)", a[2], a[3]>>

\* ------------------------------------------------- the identity classes
SimConstantVariable(ident, value, region) ==
    [cls |-> "SimConstantVariable", ident |-> ident, name |-> None, phi |-> FALSE,
     region |-> IF region # None THEN region ELSE Str(""), value |-> value]

SimTemporaryVariable(tmp_id) ==
    [cls |-> "SimTemporaryVariable", ident |-> None, name |-> None, phi |-> FALSE,
     region |-> Str(""), tmp_id |-> tmp_id]

SimRegisterVariable(reg_offset, size, ident, name, region) ==
    [cls |-> "SimRegisterVariable", ident |-> ident, name |-> name, phi |-> FALSE,
     region |-> IF region # None THEN region ELSE Str(""),
     reg |-> reg_offset, size |-> size]

\* a concrete claripy bit-vector size is converted to a number
SimMemoryVariable(addr, size, ident, name, phi, region) ==
    [cls |-> "SimMemoryVariable", ident |-> ident, name |-> name, phi |-> phi,
     region |-> IF region # None THEN region ELSE Str(""),
     addr |-> addr,
     size |-> IF size[1] = "BVV" THEN PyInt(size[2]) ELSE size]

StackOffsetThreshold == 16777216

\* An integer beyond the range of the checker's numbers (2^31 and above) is
\* held by its bits, least significant first, the last bit a 1.
PyLong(bits) == <<"long", bits>>

\* isinstance(v, (int, long))
IsIntOrLong(v) == v[1] \in {"int", "long"}

RECURSIVE bit_length(_)
bit_length(n) == IF n = 0 THEN 0 ELSE 1 + bit_length(n \div 2)

\* the w low bits of n >= 0, least significant first
RECURSIVE ToBits(_, _)
ToBits(n, w) == IF w = 0 THEN <<>> ELSE <<n % 2>> \o ToBits(n \div 2, w - 1)

\* the bits of a positive integer: offset.bit_length() of them
Bits(offset) ==
    IF offset[1] = "long" THEN offset[2]
    ELSE ToBits(offset[2], bit_length(offset[2]))

\* the number that bits stand for
RECURSIVE BitsToInt(_)
BitsToInt(b) == IF b = <<>> THEN 0 ELSE b[1] + 2 * BitsToInt(Tail(b))

\* ~x on Len(b) bits
Invert(b) == [i \in 1 .. Len(b) |-> 1 - b[i]]

\* (x + 1) & mask on Len(b) bits: the carry out of the last bit is dropped
RECURSIVE Increment(_)
Increment(b) ==
    IF b = <<>> THEN <<>>
    ELSE IF b[1] = 0 THEN <<1>> \o Tail(b)
    ELSE <<0>> \o Increment(Tail(b))

\* (mutant) the sign is lost: offset = (0 - offset) & mask
NegatedOffset_unsigned(offset) == BitsToInt(Increment(Invert(Bits(offset))))

\* offset = - ((0 - offset) & mask), mask = (1 << offset.bit_length()) - 1:
\* 0 - offset on bit_length bits is the two's complement of offset, ~offset + 1
NegatedOffset(offset) == - BitsToInt(Increment(Invert(Bits(offset))))

\* offset > 0x1000000 (a long is above every number of the checker)
AboveThreshold(offset) ==
    \/ offset[1] = "long"
    \/ IsInt(offset) /\ offset[2] > StackOffsetThreshold

StackOffset(offset) ==
    IF AboveThreshold(offset) /\ IsIntOrLong(offset)
    THEN PyInt(NegatedOffset(offset))
    ELSE offset

SimStackVariable(offset, size, base, base_addr, ident, name, phi, region) ==
    [SimMemoryVariable(
        IF base_addr # None THEN PyInt(StackOffset(offset)[2] + base_addr[2])
                            ELSE StackOffset(offset),
        size, ident, name, phi, region)
     EXCEPT !.cls = "SimStackVariable"]
    @@ [base |-> base, offset |-> StackOffset(offset)]

IsConstant(v) == v.cls = "SimConstantVariable"
IsTemporary(v) == v.cls = "SimTemporaryVariable"
IsRegister(v) == v.cls = "SimRegisterVariable"
\* type(item) is SimMemoryVariable
IsExactlyMemory(v) == v.cls = "SimMemoryVariable"
\* isinstance(item, SimMemoryVariable)
IsMemoryInstance(v) == v.cls \in {"SimMemoryVariable", "SimStackVariable"}

\* addr_hash of SimMemoryVariable.__hash__
AddrHash(addr) ==
    IF IsAddressWrapper(addr) THEN AddressWrapperHash(addr)
    ELSE IF IsInt(addr) THEN PyInt(IntHash(addr[2]))
    ELSE addr

\* __hash__ of each class
VarHash(v) ==
    CASE IsConstant(v) ->
           <<"const", ValueHash(v.value), ValueHash(v.ident), ValueHash(v.region)>>
      [] IsTemporary(v) -> <<"tmp_" \o ToString(v.tmp_id)>>
      [] IsRegister(v) ->
           <<Fmt(v.region) \o "|reg_" \o Fmt(v.reg) \o "_" \o Fmt(v.size)
                \o "_" \o Fmt(v.ident)>>
      [] OTHER -> <<AddrHash(v.addr), ValueHash(v.size), ValueHash(v.ident)>>

\* (mutant) two constants are compared by their values alone
VarEq_constants_by_value(self, other) ==
    CASE IsConstant(self) ->
           /\ IsConstant(other)
           /\ ~ (self.value = None \/ other.value = None)
           /\ self.value = other.value
      [] IsTemporary(self) ->
           IsTemporary(other) /\ VarHash(self) = VarHash(other)
      [] IsRegister(self) ->
           /\ IsRegister(other)
           /\ VarHash(self) = VarHash(other)
           /\ self.name = other.name
           /\ self.ident = other.ident
           /\ self.region = other.region
      [] OTHER ->
           /\ IsMemoryInstance(other)
           /\ VarHash(self) = VarHash(other)
           /\ self.name = other.name

\* (mutant) constants of absent value are compared like the others
VarEq_absent_values_compared(self, other) ==
    CASE IsConstant(self) ->
           /\ IsConstant(other)
           /\ self.value = other.value
           /\ self.ident = other.ident
           /\ self.region = other.region
      [] IsTemporary(self) ->
           IsTemporary(other) /\ VarHash(self) = VarHash(other)
      [] IsRegister(self) ->
           /\ IsRegister(other)
           /\ VarHash(self) = VarHash(other)
           /\ self.name = other.name
           /\ self.ident = other.ident
           /\ self.region = other.region
      [] OTHER ->
           /\ IsMemoryInstance(other)
           /\ VarHash(self) = VarHash(other)
           /\ self.name = other.name

\* (mutant) the name of a register is compared with the other's ident
VarEq_name_against_ident(self, other) ==
    CASE IsConstant(self) ->
           /\ IsConstant(other)
           /\ ~ (self.value = None \/ other.value = None)
           /\ self.value = other.value
           /\ self.ident = other.ident
           /\ self.region = other.region
      [] IsTemporary(self) ->
           IsTemporary(other) /\ VarHash(self) = VarHash(other)
      [] IsRegister(self) ->
           /\ IsRegister(other)
           /\ VarHash(self) = VarHash(other)
           /\ self.name = other.ident
           /\ self.ident = other.ident
           /\ self.region = other.region
      [] OTHER ->
           /\ IsMemoryInstance(other)
           /\ VarHash(self) = VarHash(other)
           /\ self.name = other.name

\* __eq__ of each class: self == other
VarEq(self, other) ==
    CASE IsConstant(self) ->
           /\ IsConstant(other)
           /\ ~ (self.value = None \/ other.value = None)
           /\ self.value = other.value
           /\ self.ident = other.ident
           /\ self.region = other.region
      [] IsTemporary(self) ->
           IsTemporary(other) /\ VarHash(self) = VarHash(other)
      [] IsRegister(self) ->
           /\ IsRegister(other)
           /\ VarHash(self) = VarHash(other)
           /\ self.name = other.name
           /\ self.ident = other.ident
           /\ self.region = other.region
      [] OTHER ->
           /\ IsMemoryInstance(other)
           /\ VarHash(self) = VarHash(other)
           /\ self.name = other.name

\* ------------------------------------------------------ Python set()
\* x in S, for a set of variables: some stored element equals x
PyIn(x, S) == \E y \in S : VarEq(y, x)
\* S.add(x)
PySetAdd(S, x) == IF PyIn(x, S) THEN S ELSE S \cup {x}
\* S.remove(x), when x in S
PySetRemove(S, x) == {y \in S : ~ VarEq(y, x)}
\* S |= T
PySetUnion(S, T) == S \cup {y \in T : ~ PyIn(y, S)}
\* S - T
PySetDifference(S, T) == {x \in S : ~ PyIn(x, T)}

\* ------------------------------------------------------ SimVariableSet
Fields == {"register_variables", "register_variable_offsets",
           "memory_variables", "memory_variable_addresses"}

\* SimVariableSet(): four empty sets
EmptySet == [f \in Fields |-> {}]

Ok(s) == [s |-> s, err |-> "none"]
Raise(s, e) == [s |-> s, err |-> e]

\* (mutant) the register looked up by its full identity
contains_register_variable_exact(s, reg_var) ==
    PyIn(reg_var, s.register_variables)

\* reg_offset in self.register_variable_offsets
contains_register_variable(s, reg_var) ==
    reg_var.reg[2] \in s.register_variable_offsets

\* an AddressWrapper looked up in the set of byte addresses (integers):
\* found when its address is in the set
AddressWrapperInAddresses(a, S) == a[3] \in S

\* a in self.memory_variable_addresses, for a = mem_var.addr
AddrInAddresses(a, S) ==
    IF IsInt(a) THEN a[2] \in S
    ELSE IF IsAddressWrapper(a) THEN AddressWrapperInAddresses(a, S)
    ELSE FALSE

contains_memory_variable(s, mem_var) ==
    LET a == mem_var.addr
        k == IF a[1] \in {"tuple", "list"} THEN a[Len(a)] ELSE a
    IN  AddrInAddresses(k, s.memory_variable_addresses)

add_register_variable(s, reg_var) ==
    Ok([s EXCEPT !.register_variables = PySetAdd(@, reg_var),
                 !.register_variable_offsets = @ \cup {reg_var.reg[2]}])

\* the identity is stored first; mem_var.addr.address needs an AddressWrapper
\* and xrange(mem_var.size) a number
add_memory_variable(s, mem_var) ==
    LET s1 == [s EXCEPT !.memory_variables = PySetAdd(@, mem_var)]
    IN  IF ~ IsAddressWrapper(mem_var.addr) THEN Raise(s1, "AttributeError")
        ELSE IF ~ IsInt(mem_var.size) THEN Raise(s1, "TypeError")
        ELSE Ok([s1 EXCEPT !.memory_variable_addresses =
                    @ \cup {mem_var.addr[3] + i : i \in 0 .. (mem_var.size[2] - 1)}])

\* (mutant) a variable of another kind is ignored
add_ignoring_other_kinds(s, item) ==
    IF IsRegister(item)
    THEN IF ~ contains_register_variable(s, item)
         THEN add_register_variable(s, item) ELSE Ok(s)
    ELSE IF IsExactlyMemory(item)
    THEN IF ~ contains_memory_variable(s, item)
         THEN add_memory_variable(s, item) ELSE Ok(s)
    ELSE Ok(s)

add(s, item) ==
    IF IsRegister(item)
    THEN IF ~ contains_register_variable(s, item)
         THEN add_register_variable(s, item) ELSE Ok(s)
    ELSE IF IsExactlyMemory(item)
    THEN IF ~ contains_memory_variable(s, item)
         THEN add_memory_variable(s, item) ELSE Ok(s)
    ELSE Raise(s, "Exception")

discard_register_variable(s, reg_var) ==
    IF ~ PyIn(reg_var, s.register_variables) THEN Raise(s, "KeyError")
    ELSE LET s1 == [s EXCEPT !.register_variables = PySetRemove(@, reg_var)]
         IN  IF reg_var.reg[2] \notin s.register_variable_offsets
             THEN Raise(s1, "KeyError")
             ELSE Ok([s1 EXCEPT !.register_variable_offsets = @ \ {reg_var.reg[2]}])

\* for i in xrange(n): S.remove(base + i), from iteration i on
RECURSIVE RemoveRange(_, _, _, _)
RemoveRange(S, base, i, n) ==
    IF i >= n THEN [set |-> S, err |-> "none"]
    ELSE IF (base + i) \notin S THEN [set |-> S, err |-> "KeyError"]
    ELSE RemoveRange(S \ {base + i}, base, i + 1, n)

discard_memory_variable(s, mem_var) ==
    IF ~ PyIn(mem_var, s.memory_variables) THEN Raise(s, "KeyError")
    ELSE LET s1 == [s EXCEPT !.memory_variables = PySetRemove(@, mem_var)]
         IN  IF ~ IsInt(mem_var.size) THEN Raise(s1, "TypeError")
             ELSE IF mem_var.size[2] <= 0 THEN Ok(s1)
             ELSE IF ~ IsAddressWrapper(mem_var.addr) THEN Raise(s1, "AttributeError")
             ELSE LET r == RemoveRange(s1.memory_variable_addresses,
                                       mem_var.addr[3], 0, mem_var.size[2])
                  IN  [s |-> [s1 EXCEPT !.memory_variable_addresses = r.set],
                       err |-> r.err]

discard(s, item) ==
    IF IsRegister(item)
    THEN IF contains_register_variable(s, item)
         THEN discard_register_variable(s, item) ELSE Ok(s)
    ELSE IF IsMemoryInstance(item)
    THEN IF contains_memory_variable(s, item)
         THEN discard_memory_variable(s, item) ELSE Ok(s)
    ELSE Raise(s, "Exception")

\* __len__
Length(s) == Cardinality(s.register_variables) + Cardinality(s.memory_variables)

\* (mutant) the second loop runs over register_variables again
Iterate_registers_twice(s) ==
    SetToBag(s.register_variables) (+) SetToBag(s.register_variables)

\* __iter__: what one pass yields, with the number of times it yields it
Iterate(s) == SetToBag(s.register_variables) (+) SetToBag(s.memory_variables)

\* for a in addrs: self.add_memory_variable(SimMemoryVariable(a, size))
RECURSIVE add_memory_variables(_, _, _)
add_memory_variables(s, addrs, size) ==
    IF addrs = <<>> THEN Ok(s)
    ELSE LET r == add_memory_variable(s,
                    SimMemoryVariable(Head(addrs), size, None, None, FALSE, None))
         IN  IF r.err # "none" THEN r
             ELSE add_memory_variables(r.s, Tail(addrs), size)

\* the contents of self.copy()
copy(self) == [f \in Fields |->
    IF f \in {"register_variables", "memory_variables"}
    THEN PySetUnion({}, self[f]) ELSE {} \cup self[f]]

\* (mutant) the difference taken with the fast-path membership test
complement_by_fast_path(self, other) ==
    [register_variables |->
        {x \in self.register_variables : ~ contains_register_variable(other, x)},
     register_variable_offsets |->
        self.register_variable_offsets \ other.register_variable_offsets,
     memory_variables |->
        {x \in self.memory_variables : ~ contains_memory_variable(other, x)},
     memory_variable_addresses |->
        self.memory_variable_addresses \ other.memory_variable_addresses]

complement(self, other) ==
    [register_variables |->
        PySetDifference(self.register_variables, other.register_variables),
     register_variable_offsets |->
        self.register_variable_offsets \ other.register_variable_offsets,
     memory_variables |->
        PySetDifference(self.memory_variables, other.memory_variables),
     memory_variable_addresses |->
        self.memory_variable_addresses \ other.memory_variable_addresses]

\* (mutant) only the full identities are merged
ior_identities_only(self, other) ==
    [self EXCEPT
        !.register_variables = PySetUnion(@, other.register_variables),
        !.memory_variables = PySetUnion(@, other.memory_variables)]

\* the contents of self after self.__ior__(other)
ior(self, other) ==
    [register_variables |->
        PySetUnion(self.register_variables, other.register_variables),
     register_variable_offsets |->
        self.register_variable_offsets \cup other.register_variable_offsets,
     memory_variables |->
        PySetUnion(self.memory_variables, other.memory_variables),
     memory_variable_addresses |->
        self.memory_variable_addresses \cup other.memory_variable_addresses]

\* __ior__ has no return statement
ior_return == None

Bool(b) == <<"bool", b>>

\* __contains__: the value returned, or the exception raised
contains(s, item) ==
    IF IsRegister(item)
    THEN [err |-> "none", ret |-> Bool(contains_register_variable(s, item))]
    ELSE IF IsExactlyMemory(item)
    THEN [err |-> "none", ret |-> Bool(contains_memory_variable(s, item))]
    ELSE [err |-> "Exception", ret |-> None]

\* ------------------------------------------------------- the runs' inputs
eax == SimRegisterVariable(PyInt(8), PyInt(4), None, Str("eax"), None)
rax == SimRegisterVariable(PyInt(8), PyInt(8), None, Str("rax"), None)
ebx == SimRegisterVariable(PyInt(16), PyInt(4), None, Str("ebx"), None)
Registers == {eax, rax, ebx}

\* Memory(address=a, size=n), the address a plain number
MemInt(a, n) == SimMemoryVariable(PyInt(a), PyInt(n), None, None, FALSE, None)
\* Memory(address=a, size=n), the address an AddressWrapper
MemAW(a, n) ==
    SimMemoryVariable(AddressWrapper("global", a), PyInt(n), None, None, FALSE, None)
\* Memory(address=a, size=n), the address a (region, address) tuple
MemTuple(a, n) ==
    SimMemoryVariable(<<"tuple", Str("global"), PyInt(a)>>, PyInt(n),
                      None, None, FALSE, None)

StackVars == {SimStackVariable(PyInt(1), PyInt(MaxSize), Str("sp"), None,
                               None, None, FALSE, None)}
Constants == {SimConstantVariable(None, PyInt(1), None)}
Temporaries == {SimTemporaryVariable(0)}
\* Memory(address=1, size=a symbolic bit-vector)
MemSymbolic ==
    SimMemoryVariable(AddressWrapper("global", 1), BVS("n"), None, None, FALSE, None)

\* the sizes of the memory variables of the runs
Sizes == {1, MaxSize}

\* the variables given to add and discard
Items ==
    Registers
    \cup {MemAW(a, n) : a \in 1 .. MaxAddr, n \in Sizes}
    \cup {MemInt(1, MaxSize), MemSymbolic}
    \cup StackVars \cup Constants \cup Temporaries

\* the variables given to __contains__
Queries ==
    Registers
    \cup {MemInt(q, 1) : q \in 0 .. MaxAddr}
    \cup {MemAW(1, 1), MemTuple(1, 1)}
    \cup StackVars \cup Constants

\* the address lists given to add_memory_variables
AddrLists ==
    {<<AddressWrapper("global", 1)>>,
     <<AddressWrapper("global", 1), AddressWrapper("global", 2)>>,
     <<AddressWrapper("global", 2), PyInt(1)>>}

\* --------------------------------------------------------------- state
\* Two names, a and b, each bound to a SimVariableSet object. Each of its
\* four attributes references a Python set object of the heap; an in-place
\* operator (|=, add, remove) changes the object, an assignment rebinds the
\* attribute.
Names == {"a", "b"}

VARIABLES
    ref,    \* ref[n][f]: the set object that attribute f of n's SimVariableSet references
    heap,   \* heap[f][i]: the elements of set object i (of the objects attributes f use)
    last,   \* the last call: operation, receiver, arguments, exception raised, value returned
    pre,    \* the contents of both variable sets before the last call
    nops,   \* number of calls made
    origin, \* origin[n]: the name whose set n's SimVariableSet was copied from, or "-"
    objs    \* the two variable objects under construction and comparison

vars == <<ref, heap, last, pre, nops, origin, objs>>

\* the four collections of the SimVariableSet bound to n
Contents(n) == [f \in Fields |-> heap[f][ref[n][f]]]

Call(op, self, other, dst, item, err, ret) ==
    [op |-> op, self |-> self, other |-> other, dst |-> dst, item |-> item,
     err |-> err, ret |-> ret]

\* no call is being made
Idle == Call("idle", "-", "-", "-", None, "none", None)

\* no variable object is being constructed
NoObjects == [step |-> "none"]

\* two names bound to empty variable sets, no call made
InitSets ==
    /\ ref = [n \in Names |-> [f \in Fields |-> n]]
    /\ heap = [f \in Fields |-> [i \in Names |-> {}]]
    /\ last = Idle
    /\ pre = [n \in Names |-> EmptySet]
    /\ nops = 0
    /\ origin = [n \in Names |-> "-"]

Init ==
    /\ InitSets
    /\ objs = NoObjects

\* every call is recorded with the contents it started from
Record(call) ==
    /\ last = Idle
    /\ nops < MaxOps
    /\ nops' = nops + 1
    /\ pre' = [n \in Names |-> Contents(n)]
    /\ last' = call
    /\ UNCHANGED objs

\* the set objects of n are changed in place to the contents s
InPlace(n, s) ==
    /\ heap' = [f \in Fields |-> [heap[f] EXCEPT ![ref[n][f]] = s[f]]]
    /\ ref' = ref

\* set(): a new set object, one no other name's SimVariableSet references
NewSet(f, dst) == CHOOSE i \in Names : \A n \in Names \ {dst} : ref[n][f] # i

\* (mutant) the copy's attribute is bound to the original's set object
copy_storage_shared(f, dst, self) == ref[self][f]

\* the set object that attribute f of self.copy() references: s = SimVariableSet()
\* creates it, and |= fills it
copy_storage(f, dst, self) == NewSet(f, dst)

\* dst is bound to a SimVariableSet whose attribute f references object at[f],
\* which holds s[f]
Bind(dst, at, s) ==
    /\ ref' = [ref EXCEPT ![dst] = at]
    /\ heap' = [f \in Fields |-> [heap[f] EXCEPT ![at[f]] = s[f]]]

\* ------------------------------------------------------------- actions
Add(n, item) ==
    LET r == add(Contents(n), item)
    IN  /\ Record(Call("add", n, "-", "-", item, r.err, None))
        /\ InPlace(n, r.s)
        /\ UNCHANGED origin

Discard(n, item) ==
    LET r == discard(Contents(n), item)
    IN  /\ Record(Call("discard", n, "-", "-", item, r.err, None))
        /\ InPlace(n, r.s)
        /\ UNCHANGED origin

Contains(n, item) ==
    LET r == contains(Contents(n), item)
    IN  /\ Record(Call("contains", n, "-", "-", item, r.err, r.ret))
        /\ UNCHANGED <<ref, heap, origin>>

AddMemoryVariables(n, addrs, size) ==
    LET r == add_memory_variables(Contents(n), addrs, PyInt(size))
    IN  /\ Record(Call("add_memory_variables", n, "-", "-", <<addrs, size>>, r.err, None))
        /\ InPlace(n, r.s)
        /\ UNCHANGED origin

\* dst = self.copy()
Copy(dst, self) ==
    /\ Record(Call("copy", self, "-", dst, None, "none", None))
    /\ Bind(dst, [f \in Fields |-> copy_storage(f, dst, self)], copy(Contents(self)))
    /\ origin' = [n \in Names |->
            IF n = dst THEN (IF dst = self THEN "-" ELSE self)
            ELSE IF origin[n] = dst THEN "-" ELSE origin[n]]

\* dst = self.complement(other)
Complement(dst, self, other) ==
    /\ Record(Call("complement", self, other, dst, None, "none", None))
    /\ Bind(dst, [f \in Fields |-> NewSet(f, dst)],
            complement(Contents(self), Contents(other)))
    /\ origin' = [n \in Names |-> IF n = dst \/ origin[n] = dst THEN "-" ELSE origin[n]]

\* self.__ior__(other)
UnionInPlace(self, other) ==
    /\ Record(Call("ior", self, other, "-", None, "none", ior_return))
    /\ InPlace(self, ior(Contents(self), Contents(other)))
    /\ UNCHANGED origin

\* the caller has taken the outcome of the last call and goes on
Return ==
    /\ last # Idle
    /\ last' = Idle
    /\ pre' = [n \in Names |-> EmptySet]
    /\ UNCHANGED <<ref, heap, nops, origin, objs>>

Next ==
    \/ \E n \in Names, item \in Items : Add(n, item)
    \/ \E n \in Names, item \in Items : Discard(n, item)
    \/ \E n \in Names, item \in Queries : Contains(n, item)
    \/ \E n \in Names, addrs \in AddrLists, size \in Sizes :
          AddMemoryVariables(n, addrs, size)
    \/ \E dst \in Names, self \in Names : Copy(dst, self)
    \/ \E dst \in Names, self \in Names, other \in Names : Complement(dst, self, other)
    \/ \E self \in Names, other \in Names : UnionInPlace(self, other)
    \/ Return

Spec == Init /\ [][Next]_vars

\* ------------------------------------------ runs on supported variables
\* the Register variables and the Memory variables of concrete size whose
\* address is an AddressWrapper
SupportedItems == {v \in Items : IsRegister(v) \/ (IsExactlyMemory(v)
                      /\ IsAddressWrapper(v.addr) /\ IsInt(v.size))}
SupportedAddrLists ==
    {l \in AddrLists : \A i \in 1 .. Len(l) : IsAddressWrapper(l[i])}

\* self.discard_register_variable(item), called directly
DiscardRegisterVariable(n, item) ==
    LET r == discard_register_variable(Contents(n), item)
    IN  /\ Record(Call("discard_register_variable", n, "-", "-", item, r.err, None))
        /\ InPlace(n, r.s)
        /\ UNCHANGED origin

\* self.discard_memory_variable(item), called directly
DiscardMemoryVariable(n, item) ==
    LET r == discard_memory_variable(Contents(n), item)
    IN  /\ Record(Call("discard_memory_variable", n, "-", "-", item, r.err, None))
        /\ InPlace(n, r.s)
        /\ UNCHANGED origin

\* Add, bulk add, Discard, Union in place and Copy, from empty variable sets
NextMutators ==
    \/ \E n \in Names, item \in SupportedItems : Add(n, item)
    \/ \E n \in Names, item \in SupportedItems : Discard(n, item)
    \/ \E n \in Names, addrs \in SupportedAddrLists, size \in Sizes :
          AddMemoryVariables(n, addrs, size)
    \/ \E dst \in Names, self \in Names : Copy(dst, self)
    \/ \E self \in Names, other \in Names : UnionInPlace(self, other)
    \/ Return

SpecMutators == Init /\ [][NextMutators]_vars

\* the same, with the two remove-style helpers called directly
NextHelpers ==
    \/ \E n \in Names, item \in SupportedItems : Add(n, item)
    \/ \E n \in Names, item \in SupportedItems : Discard(n, item)
    \/ \E n \in Names, item \in SupportedItems \cap Registers :
          DiscardRegisterVariable(n, item)
    \/ \E n \in Names, item \in SupportedItems \ Registers :
          DiscardMemoryVariable(n, item)
    \/ \E n \in Names, addrs \in SupportedAddrLists, size \in Sizes :
          AddMemoryVariables(n, addrs, size)
    \/ \E dst \in Names, self \in Names : Copy(dst, self)
    \/ \E self \in Names, other \in Names : UnionInPlace(self, other)
    \/ Return

SpecHelpers == Init /\ [][NextHelpers]_vars

\* ------------------------------------- the identity classes on their own
\* Two variable objects are constructed from two argument lists, then
\* compared with == or hashed.
MaxK == 2
MaxWidth == 32

\* 2^w - k for 0 < k <= 2^w, as a long: the w low bits of ~(k - 1)
LongBelowPower(w, k) == PyLong(Invert(ToBits(k - 1, w)))

\* the offsets given to SimStackVariable
StackOffsets ==
    {PyInt(-k) : k \in 1 .. MaxK}
    \cup {LongBelowPower(MaxWidth, k) : k \in 1 .. MaxK}
    \cup {PyInt(0), PyInt(StackOffsetThreshold), PyInt(StackOffsetThreshold + 1),
          PyInt(2 * StackOffsetThreshold)}

ConstantArgs ==
    {<<"SimConstantVariable", ident, value, region>> :
        ident \in {None, Str("c")},
        value \in {None} \cup {PyInt(k) : k \in 1 .. MaxK},
        region \in {None, Str("f")}}
TemporaryArgs == {<<"SimTemporaryVariable", k>> : k \in 0 .. MaxK}
RegisterArgs ==
    {<<"SimRegisterVariable", PyInt(8), PyInt(4 * k), ident, name, None>> :
        k \in 1 .. MaxK, ident \in {None, Str("c")}, name \in {None, Str("eax")}}
MemoryArgs ==
    {<<"SimMemoryVariable", addr, size, None, name, FALSE, None>> :
        addr \in {PyInt(-k) : k \in 1 .. MaxK} \cup {AddressWrapper("global", 1)},
        size \in {PyInt(MaxSize), BVV(MaxSize)},
        name \in {None, Str("m")}}
StackArgs ==
    {<<"SimStackVariable", offset, PyInt(MaxSize), Str("sp"), base_addr,
       None, None, FALSE, None>> :
        offset \in StackOffsets, base_addr \in {None, PyInt(MaxAddr)}}

Args == ConstantArgs \cup TemporaryArgs \cup RegisterArgs \cup MemoryArgs \cup StackArgs

\* cls(*args)
New(args) ==
    CASE args[1] = "SimConstantVariable" ->
            SimConstantVariable(args[2], args[3], args[4])
      [] args[1] = "SimTemporaryVariable" -> SimTemporaryVariable(args[2])
      [] args[1] = "SimRegisterVariable" ->
            SimRegisterVariable(args[2], args[3], args[4], args[5], args[6])
      [] args[1] = "SimMemoryVariable" ->
            SimMemoryVariable(args[2], args[3], args[4], args[5], args[6], args[7])
      [] args[1] = "SimStackVariable" ->
            SimStackVariable(args[2], args[3], args[4], args[5], args[6], args[7],
                             args[8], args[9])

InitIdentity ==
    /\ InitSets
    /\ objs \in {[step |-> "args", args |-> <<a1, a2>>] : a1 \in Args, a2 \in Args}

\* x = cls(*args1); y = cls(*args2)
Construct ==
    /\ objs.step = "args"
    /\ objs' = [step |-> "new", args |-> objs.args,
                x |-> New(objs.args[1]), y |-> New(objs.args[2])]
    /\ UNCHANGED <<ref, heap, last, pre, nops, origin>>

\* x == y
Equals ==
    /\ objs.step = "new"
    /\ objs' = [objs EXCEPT !.step = "eq"] @@ [eq |-> VarEq(objs.x, objs.y)]
    /\ UNCHANGED <<ref, heap, last, pre, nops, origin>>

\* hash(x), hash(y)
Hash ==
    /\ objs.step = "new"
    /\ objs' = [objs EXCEPT !.step = "hash"]
                @@ [hx |-> VarHash(objs.x), hy |-> VarHash(objs.y)]
    /\ UNCHANGED <<ref, heap, last, pre, nops, origin>>

NextIdentity == Construct \/ Equals \/ Hash

SpecIdentity == InitIdentity /\ [][NextIdentity]_vars

\* ------------------------------------------------------ claims' vocabulary
\* the number of a concrete address
AddrNumber(addr) == IF IsAddressWrapper(addr) THEN addr[3] ELSE addr[2]

\* the byte addresses a..a+n-1 of a memory variable with a concrete size
Span(v) == {AddrNumber(v.addr) + i : i \in 0 .. (v.size[2] - 1)}

\* Memory(address=q, size=1), with q written the way v's address is
QueryAt(v, q) ==
    SimMemoryVariable(
        IF IsAddressWrapper(v.addr) THEN AddressWrapper(v.addr[2], q) ELSE PyInt(q),
        PyInt(1), None, None, FALSE, None)

\* the byte addresses queried: one below the lowest span to one above the highest
QueryAddrs == 0 .. (MaxAddr + MaxSize)

\* the contract of section 3: two variables are the same full identity
SameIdentity(x, y) ==
    \/ /\ IsRegister(x) /\ IsRegister(y)
       /\ x.reg = y.reg /\ x.size = y.size /\ x.ident = y.ident
       /\ x.region = y.region /\ x.name = y.name
    \/ /\ IsMemoryInstance(x) /\ IsMemoryInstance(y)
       /\ x.addr = y.addr /\ x.size = y.size /\ x.ident = y.ident /\ x.name = y.name

\* the full identities a variable set stores
Elements(s) == s.register_variables \cup s.memory_variables

\* v's full identity is stored in s
Stored(s, v) == \E y \in Elements(s) : SameIdentity(y, v)

\* ---------------------------------------------------------------- C1
\* C1: after Add(Memory(address=a, size=n)), n >= 1 concrete, on an empty
\* variable set, Contains(Memory(address=q)) is true for every q in
\* a..a+n-1 and false for q = a-1 and q = a+n.
C1_MemoryOverlapContainment ==
    (/\ last.op = "add"
     /\ IsExactlyMemory(last.item)
     /\ IsInt(last.item.size) /\ last.item.size[2] >= 1
     /\ pre[last.self] = EmptySet)
    => \A q \in QueryAddrs :
          contains(Contents(last.self), QueryAt(last.item, q))
            = [err |-> "none", ret |-> Bool(q \in Span(last.item))]

\* ---------------------------------------------------------------- C2
\* C2: Add, Contains and Discard each accept a Stack variable with a
\* concrete address and size without failing, and after Add(Stack s)
\* Contains is true for every byte address of s's span.
C2_StackSupported ==
    (/\ last.op \in {"add", "discard", "contains"}
     /\ last.item.cls = "SimStackVariable")
    => /\ last.err = "none"
       /\ last.op = "add" =>
            \A q \in Span(last.item) :
               contains(Contents(last.self), QueryAt(last.item, q)).ret = Bool(TRUE)

\* ---------------------------------------------------------------- C3
\* C3: the public discard of a Register or Memory variable whose full
\* identity is not stored does not fail and leaves all four collections
\* unchanged, also when another stored variable shares its fast-path index.
C3_DiscardAbsentIsNoOp ==
    (/\ last.op = "discard"
     /\ IsRegister(last.item) \/ IsExactlyMemory(last.item)
     /\ ~ Stored(pre[last.self], last.item))
    => /\ last.err = "none"
       /\ Contents(last.self) = pre[last.self]

\* ---------------------------------------------------------------- C4
\* the elements of s whose full identity is stored in o
Common(s, o) == {x \in Elements(s) : Stored(o, x)}

\* C4: Complement(A, B) yields by iteration exactly the elements of A whose
\* full identity is not an element of B, each once; Complement(A, A) is
\* empty; Length(Complement(A, B)) + |{x in A : x in B}| = Length(A).
C4_ComplementCorrect ==
    last.op = "complement" =>
        LET A == pre[last.self]
            B == pre[last.other]
            R == Contents(last.dst)
        IN  /\ Iterate(R) = SetToBag(Elements(A) \ Common(A, B))
            /\ last.self = last.other => Length(R) = 0
            /\ Length(R) + Cardinality(Common(A, B)) = Length(A)

\* a complement that keeps one element of A and drops another
C4_Witness ==
    /\ last.op = "complement"
    /\ last.self # last.other
    /\ Length(Contents(last.dst)) > 0
    /\ Cardinality(Common(pre[last.self], pre[last.other])) > 0

\* ---------------------------------------------------------------- C5
\* the index collections of s match its full identities
IndexConsistent(s) ==
    /\ s.register_variable_offsets = {v.reg[2] : v \in s.register_variables}
    /\ \A v \in s.memory_variables : IsInt(v.size)
    /\ s.memory_variable_addresses = UNION {Span(v) : v \in s.memory_variables}

\* C5: for index-consistent A and B, the index collections of
\* Complement(A, B) match its full-identity collections.
C5_ComplementIndexRecomputed ==
    (/\ last.op = "complement"
     /\ IndexConsistent(pre[last.self])
     /\ IndexConsistent(pre[last.other]))
    => IndexConsistent(Contents(last.dst))

\* ---------------------------------------------------------------- C6
\* C6: a variable set never stores two Register identities with the same
\* reg_offset, nor two Memory identities that cover a common byte address.
C6_NoDuplicates ==
    \A n \in Names :
        /\ \A x, y \in Contents(n).register_variables : x.reg = y.reg => x = y
        /\ \A x, y \in Contents(n).memory_variables :
              (IsInt(x.size) /\ IsInt(y.size) /\ Span(x) \cap Span(y) # {}) => x = y

\* ---------------------------------------------------------------- C7
\* Register queries with the attributes the fast path ignores varied
RegisterQueries ==
    Registers \cup
    {SimRegisterVariable(PyInt(8), PyInt(4), Str("id"), Str("eax"), None),
     SimRegisterVariable(PyInt(8), PyInt(4), None, Str("eax"), Str("f")),
     SimRegisterVariable(PyInt(24), PyInt(4), None, Str("ecx"), None)}

\* the Register and Memory queries of the claims
AllQueries ==
    RegisterQueries
    \cup {MemInt(q, 1) : q \in QueryAddrs}
    \cup {MemAW(q, 1) : q \in QueryAddrs}
    \cup {MemTuple(q, 1) : q \in QueryAddrs}

\* Contains(s, q) is true
Has(s, q) == contains(s, q) = [err |-> "none", ret |-> Bool(TRUE)]

\* C7: after UnionInPlace(A, B), Contains(A, q) is true iff Contains(original
\* A, q) or Contains(original B, q) was, for every Register and Memory
\* query q; B is unchanged.
C7_UnionMembership ==
    last.op = "ior" =>
        /\ \A q \in AllQueries :
              /\ contains(Contents(last.self), q).err = "none"
              /\ Has(Contents(last.self), q)
                   <=> (Has(pre[last.self], q) \/ Has(pre[last.other], q))
        /\ Contents(last.other) = pre[last.other]

\* a union that brings A a register and a byte, or keeps one only A had
C7_Witness ==
    /\ last.op = "ior"
    /\ \E q1, q2 \in AllQueries :
          /\ Has(pre[last.self], q1) /\ ~ Has(pre[last.other], q1)
          /\ Has(pre[last.other], q2) /\ ~ Has(pre[last.self], q2)
          /\ Has(Contents(last.self), q1) /\ Has(Contents(last.self), q2)

\* ---------------------------------------------------------------- C8
Mutators == {"add", "discard", "add_memory_variables", "ior"}

\* C8: after b := Copy(a), b has a's contents in all four collections, and
\* no Add, Discard, bulk add or Union in place applied to one variable set
\* changes the four collections of another (every Contains result, the
\* Length and the iterated elements are computed from these four).
C8_CopyIndependence ==
    /\ last.op = "copy" =>
          /\ Contents(last.dst) = pre[last.self]
          /\ Contents(last.self) = pre[last.self]
    /\ last.op \in Mutators =>
          \A m \in Names \ {last.self} : Contents(m) = pre[m]

\* a copy of a non-empty variable set has been changed by a call
C8_Witness ==
    /\ last.op \in Mutators
    /\ origin[last.self] \in Names
    /\ pre[origin[last.self]] # EmptySet
    /\ Contents(last.self) # pre[last.self]
    /\ Contents(last.self) # Contents(origin[last.self])

\* ---------------------------------------------------------------- C9
\* the elements one pass yields that equal v, with repetitions
Yields(s, v) ==
    LET B == Iterate(s)
    IN  BagCardinality([e \in {x \in BagToSet(B) : VarEq(x, v)} |-> B[e]])

\* C9: Add(v) of a Register or Memory variable a second time leaves the
\* variable set as the first Add left it (same Length, same four
\* collections), and iteration yields v at most once.
C9_IdempotentAdd ==
    (last.op = "add" /\ (IsRegister(last.item) \/ IsExactlyMemory(last.item)))
    => LET s == Contents(last.self)
           again == add(s, last.item)
       IN  /\ again.s = s
           /\ again.err = last.err
           /\ Length(again.s) = Length(s)
           /\ Yields(again.s, last.item) <= 1

\* an Add that stored its variable
C9_Witness ==
    /\ last.op = "add"
    /\ last.err = "none"
    /\ Contents(last.self) # pre[last.self]
    /\ Yields(Contents(last.self), last.item) = 1

\* --------------------------------------------------------------- C10
\* C10: Contains for a Register query depends only on its reg_offset; after
\* Add(r1), Contains(r2) is true for every Register r2 with r1's reg_offset
\* and Add(r2) leaves the variable set unchanged.
C10_RegisterFastPath ==
    /\ (last.op = "contains" /\ IsRegister(last.item)) =>
          \A r2 \in RegisterQueries :
             r2.reg = last.item.reg =>
                contains(Contents(last.self), r2) = [err |-> last.err, ret |-> last.ret]
    /\ (last.op = "add" /\ IsRegister(last.item)) =>
          \A r2 \in RegisterQueries :
             r2.reg = last.item.reg =>
                /\ Has(Contents(last.self), r2)
                /\ add(Contents(last.self), r2) = Ok(Contents(last.self))
    /\ (last.op = "add" /\ IsRegister(last.item) /\ Has(pre[last.self], last.item)) =>
          Contents(last.self) = pre[last.self]

\* Add(rax) on a variable set that stores eax, and not rax
C10_Witness ==
    /\ last.op = "add"
    /\ last.item = rax
    /\ eax \in Contents(last.self).register_variables
    /\ rax \notin Contents(last.self).register_variables
    /\ Contents(last.self) = pre[last.self]

\* --------------------------------------------------------------- C11
\* C11: Add or Discard of a memory variable whose size is not a concrete
\* integer fails with an error, and the variable set is as it was before
\* the call (the variable is stored in none of its collections).
C11_SymbolicSizeRejected ==
    (/\ last.op \in {"add", "discard"}
     /\ IsExactlyMemory(last.item)
     /\ ~ IsInt(last.item.size))
    => /\ last.err # "none"
       /\ Contents(last.self) = pre[last.self]
       /\ ~ PyIn(last.item, Contents(last.self).memory_variables)

\* --------------------------------------------------------------- C12
\* C12: Add and Discard of a Constant or Temporary variable always fail
\* with the error of an unsupported member kind (the exception of the
\* final else branch), and the four collections are unchanged.
C12_UnsupportedMemberKind ==
    (/\ last.op \in {"add", "discard"}
     /\ IsConstant(last.item) \/ IsTemporary(last.item))
    => /\ last.err = "Exception"
       /\ Contents(last.self) = pre[last.self]

\* a Temporary given to add on a variable set that is not empty
C12_Witness ==
    /\ last.op = "add"
    /\ IsTemporary(last.item)
    /\ last.err = "Exception"
    /\ Contents(last.self) # EmptySet

\* --------------------------------------------------------------- C13
\* C13: for variables a and b of any classes, a == b implies
\* hash(a) = hash(b); a Memory and a Stack variable share __eq__ and __hash__.
C13_HashConsistent ==
    (objs.step = "eq" /\ objs.eq) => VarHash(objs.x) = VarHash(objs.y)

\* a Stack variable equal to a Memory variable
C13_Witness ==
    /\ objs.step = "eq"
    /\ objs.eq
    /\ objs.x.cls = "SimStackVariable"
    /\ objs.y.cls = "SimMemoryVariable"

\* --------------------------------------------------------------- C14
\* C14: for every class and every argument list, two variables constructed
\* from the same arguments are equal.
C14_SameArgumentsEqual ==
    (objs.step = "eq" /\ objs.args[1] = objs.args[2]) => objs.eq

\* C14 (amended): two variables constructed from the same arguments are
\* equal, except two Constants constructed with no value, which are not.
C14_SameArgumentsEqualUnlessNoValue ==
    (objs.step = "eq" /\ objs.args[1] = objs.args[2])
    => (objs.eq <=> ~ (IsConstant(objs.x) /\ objs.x.value = None))

\* a Constant with no value, constructed twice and compared
C14_Witness ==
    /\ objs.step = "eq"
    /\ objs.args[1] = objs.args[2]
    /\ IsConstant(objs.x)
    /\ objs.x.value = None
    /\ ~ objs.eq

\* --------------------------------------------------------------- C15
\* C15: two Constants are equal exactly when both values are present and
\* equal and ident and region are equal; when either value is absent they
\* are not equal, whatever ident and region are.
C15_ConstantNonMerge ==
    (objs.step = "eq" /\ IsConstant(objs.x) /\ IsConstant(objs.y))
    => /\ objs.eq <=> /\ objs.args[1][3] # None
                      /\ objs.args[2][3] # None
                      /\ objs.x.value = objs.y.value
                      /\ objs.x.ident = objs.y.ident
                      /\ objs.x.region = objs.y.region
       /\ (objs.args[1][3] = None \/ objs.args[2][3] = None) => ~ objs.eq

\* a Constant of absent value compared with one of the same ident and
\* region whose value is present
C15_Witness ==
    /\ objs.step = "eq"
    /\ IsConstant(objs.x) /\ IsConstant(objs.y)
    /\ objs.x.value = None /\ objs.y.value # None
    /\ objs.x.ident = objs.y.ident /\ objs.x.region = objs.y.region
    /\ ~ objs.eq

\* --------------------------------------------------------------- C16
\* the two argument lists are those of Stack variables that differ in the
\* offset alone, 2^MaxWidth - k against -k
ReinterpretedPair ==
    /\ objs.args[1][1] = "SimStackVariable"
    /\ \E k \in 1 .. MaxK :
          /\ objs.args[1][2] = LongBelowPower(MaxWidth, k)
          /\ objs.args[2] = [objs.args[1] EXCEPT ![2] = PyInt(-k)]

\* C16: a Stack variable of offset 2^32 - k has the stored offset, the
\* address (base_addr + offset, or the offset), the hash of the Stack
\* variable of offset -k and is equal to it; an integer offset of at most
\* 0x1000000 is stored unchanged and a greater one is stored as a negative
\* number.
C16_StackOffsetReinterpreted ==
    (objs.step \in {"new", "eq", "hash"} /\ objs.args[1][1] = "SimStackVariable")
    => LET raw == objs.args[1][2]
           base_addr == objs.args[1][5]
       IN  /\ (IsInt(raw) /\ raw[2] <= StackOffsetThreshold) => objs.x.offset = raw
           /\ (raw[1] = "long" \/ (IsInt(raw) /\ raw[2] > StackOffsetThreshold))
              => IsInt(objs.x.offset) /\ objs.x.offset[2] < 0
           /\ objs.x.addr = IF base_addr = None THEN objs.x.offset
                            ELSE PyInt(base_addr[2] + objs.x.offset[2])
           /\ ReinterpretedPair
              => /\ objs.x.offset = objs.args[2][2]
                 /\ objs.x.offset = objs.y.offset
                 /\ objs.x.addr = objs.y.addr
                 /\ objs.step = "hash" => objs.hx = objs.hy
                 /\ objs.step = "eq" => objs.eq

\* offset 2^MaxWidth - MaxK with a base address, compared with offset -MaxK
C16_Witness ==
    /\ objs.step = "eq"
    /\ ReinterpretedPair
    /\ objs.args[1][2] = LongBelowPower(MaxWidth, MaxK)
    /\ objs.args[1][5] # None
    /\ objs.x.offset = PyInt(-MaxK)
    /\ objs.eq

\* --------------------------------------------------------------- C17
\* C17: in every state reached from empty variable sets by Add, bulk add
\* from addresses, Discard, Union in place and Copy, the register offsets
\* are exactly the reg_offsets of the stored Register variables and the
\* byte addresses are exactly the union of the spans of the stored Memory
\* variables.
C17_IndexConsistency == \A n \in Names : IndexConsistent(Contents(n))

\* --------------------------------------------------------------- C18
\* C18: for a Register or Memory variable v that the variable set does not
\* contain, Add(v) followed by Discard(v) leaves all four collections as
\* they were before the Add, also when v's span overlaps the span of a
\* Memory variable stored at a higher address.
C18_AddDiscardRoundTrip ==
    (/\ last.op = "add"
     /\ IsRegister(last.item) \/ IsExactlyMemory(last.item)
     /\ contains(pre[last.self], last.item) = [err |-> "none", ret |-> Bool(FALSE)])
    => discard(Contents(last.self), last.item) = Ok(pre[last.self])

\* --------------------------------------------------------------- C19
\* C19: when discard, discard_register_variable or discard_memory_variable
\* fails because something to remove is not found, all four collections
\* are as they were before the call.
C19_DiscardFailureAtomic ==
    (/\ last.op \in {"discard", "discard_register_variable", "discard_memory_variable"}
     /\ last.err = "KeyError")
    => Contents(last.self) = pre[last.self]

\* --------------------------------------------------------------- C20
\* C20: the value that the union in place produces is the receiver, so that
\* after A |= B the name A is still bound to the merged variable set.
C20_UnionReturnsReceiver ==
    last.op = "ior" => last.ret = <<"SimVariableSet", last.self>>

====
